---- MODULE Spec2Model ----
(***************************************************************************)
(* Model of code_2.py: CryptoAPIHandler (fetch_data, save_data, load_data, *)
(* automate_data_pull), DataTransformer (transform_data, filter_coin_data) *)
(* and the __main__ script that drives them.                               *)
(*                                                                         *)
(* Spec            the __main__ pipeline: poll loop, ad hoc fetch/store,   *)
(*                 load, transform, filter.                                *)
(* SpecTransformer the two static methods of DataTransformer applied to    *)
(*                 tables drawn from a bounded set.                        *)
(***************************************************************************)
EXTENDS Integers, Sequences, FiniteSets, TLC

VARIABLES
    pc,               \* position of the script / of the method being run
    i,                \* loop variable of automate_data_pull
    runs,             \* argument runs of automate_data_pull
    interval,         \* argument interval of automate_data_pull
    now,              \* the wall clock
    data,             \* local variable data (result of fetch_data)
    response,         \* what the last session.get produced
    file,             \* the file at self.output_file
    dataframe,        \* self.dataframe
    saved_data,       \* result of load_data / the table handed to DataTransformer
    transformed_data, \* result of transform_data
    bitcoin_data,     \* result of filter_coin_data
    coin_name,        \* argument coin_name of filter_coin_data (characters)
    err,              \* the exception that ended the run ("" when none)
    future_stack,     \* whether DataFrame.stack() of the installed pandas keeps NaN
    fetches,          \* number of fetch_data calls so far
    sleeps,           \* number of sleep calls so far
    stored            \* one entry per save_data call: batch size, clock, columns

vars == <<pc, i, runs, interval, now, data, response, file, dataframe, saved_data,
          transformed_data, bitcoin_data, coin_name, err, future_stack,
          fetches, sleeps, stored>>

\* ---------------------------------------------------------------- bounds
MaxRuns == 3
MaxInterval == 1
MaxRows == 3
MaxNameLen == 3

\* ---------------------------------------------------------------- values
\* A table cell: a number, a string, a timestamp or NaN (a missing value).
Num(v) == [t |-> "num", n |-> v, s |-> ""]
Str(x) == [t |-> "str", n |-> 0, s |-> x]
Time(v) == [t |-> "time", n |-> v, s |-> ""]
NaN == [t |-> "nan", n |-> 0, s |-> ""]

\* Python's None, an empty list and a list of JSON objects as values of data.
None == [none |-> TRUE, items |-> <<>>]
List(items) == [none |-> FALSE, items |-> items]

\* A DataFrame; NoFrame is the None that load_data returns.
Frame(cols, rows) == [none |-> FALSE, cols |-> cols, rows |-> rows]
NoFrame == [none |-> TRUE, cols |-> <<>>, rows |-> <<>>]

Horizons == <<"1h", "24h", "7d", "30d", "60d", "90d">>
PctCols == [k \in 1..Len(Horizons) |-> "quote.USD.percent_change_" \o Horizons[k]]

IndexOf(seq, x) ==
    IF \E k \in 1..Len(seq) : seq[k] = x
    THEN CHOOSE k \in 1..Len(seq) : seq[k] = x /\ \A j \in 1..(k - 1) : seq[j] # x
    ELSE 0

\* ---------------------------------------------------------------- the remote endpoint
\* One entity object of the payload's data section, as its leaves in document
\* order: name, then quote -> USD -> percent_change_<key>.  A JSON null is a
\* missing value.
Coin(name, keys, base, missing) ==
    <<[path |-> <<"name">>, val |-> Str(name)]>> \o
    [k \in 1..Len(keys) |->
        [path |-> <<"quote", "USD", "percent_change_" \o keys[k]>>,
         val |-> IF keys[k] = missing THEN NaN ELSE Num(base + k - 1)]]

\* A payload whose field set differs: the 90d metric is reported as 1y.
DriftKeys == <<"1h", "24h", "7d", "30d", "60d", "1y">>

Payloads ==
    { <<>>,
      <<Coin("Bitcoin", Horizons, 1, "")>>,
      <<Coin("Ethereum", Horizons, 3, "7d"), Coin("Bitcoin", Horizons, 3, "")>>,
      <<Coin("Bitcoin", DriftKeys, 2, "")>> }

\* What session.get and the body it returns can be: the request raises, the
\* body is not JSON, the JSON has no data section, or it has one.
Resp(exc, valid, has_data, items) ==
    [exc |-> exc, valid |-> valid, has_data |-> has_data, items |-> items]

RequestErrors == {"ConnectionError", "Timeout", "TooManyRedirects", "ChunkedEncodingError"}

Responses ==
    {Resp(e, TRUE, TRUE, <<>>) : e \in RequestErrors} \cup
    {Resp("", FALSE, FALSE, <<>>), Resp("", TRUE, FALSE, <<>>)} \cup
    {Resp("", TRUE, TRUE, p) : p \in Payloads}

\* ---------------------------------------------------------------- fetch_data
CaughtNarrow(exc) == exc \in {"ConnectionError", "Timeout"}

\* except (ConnectionError, Timeout, TooManyRedirects)
Caught(exc) == exc \in {"ConnectionError", "Timeout", "TooManyRedirects"}

\* The exception fetch_data lets escape ("" when none) and the value it returns.
fetch_data(resp) ==
    IF resp.exc # ""
    THEN IF Caught(resp.exc)
         THEN [raised |-> "", value |-> None]
         ELSE [raised |-> resp.exc, value |-> None]
    ELSE IF ~resp.valid THEN [raised |-> "JSONDecodeError", value |-> None]
    ELSE IF ~resp.has_data THEN [raised |-> "KeyError", value |-> None]
    ELSE [raised |-> "", value |-> List(resp.items)]

\* ---------------------------------------------------------------- save_data
RECURSIVE Dotted(_)
Dotted(path) ==
    IF Len(path) = 1 THEN path[1] ELSE path[1] \o "." \o Dotted(Tail(path))

RECURSIVE AddCols(_, _)
AddCols(cols, leaves) ==
    IF leaves = <<>> THEN cols
    ELSE LET c == Dotted(Head(leaves).path)
         IN AddCols(IF IndexOf(cols, c) = 0 THEN Append(cols, c) ELSE cols, Tail(leaves))

RECURSIVE ColsOf(_, _)
ColsOf(cols, items) ==
    IF items = <<>> THEN cols ELSE ColsOf(AddCols(cols, Head(items)), Tail(items))

ValueAt(item, col) ==
    IF \E k \in 1..Len(item) : Dotted(item[k].path) = col
    THEN item[CHOOSE k \in 1..Len(item) : Dotted(item[k].path) = col].val
    ELSE NaN

\* pd.json_normalize: nested fields become dotted-path columns, in first-seen order.
json_normalize(items) ==
    LET cols == ColsOf(<<>>, items)
    IN Frame(cols, [r \in 1..Len(items) |->
                       [c \in 1..Len(cols) |-> ValueAt(items[r], cols[c])]])

StampPerRow(df, t) ==
    Frame(df.cols \o <<"timestamp">>,
          [r \in 1..Len(df.rows) |-> df.rows[r] \o <<Time(t + r - 1)>>])

\* self.dataframe['timestamp'] = pd.to_datetime('now')
Stamp(df, t) ==
    Frame(df.cols \o <<"timestamp">>,
          [r \in 1..Len(df.rows) |-> df.rows[r] \o <<Time(t)>>])

IsFile(f) == f.exists

\* to_csv writes a missing value as an empty field.
ToCsvCell(v) == IF v.t = "nan" THEN Str("") ELSE v

HeaderLine(df) ==
    [header |-> TRUE, cells |-> [c \in 1..Len(df.cols) |-> Str(df.cols[c])]]

RowLines(df) ==
    [r \in 1..Len(df.rows) |->
        [header |-> FALSE,
         cells |-> [c \in 1..Len(df.rows[r]) |-> ToCsvCell(df.rows[r][c])]]]

\* DataFrame.to_csv(path, index=False, mode=mode, header=header)
to_csv(f, df, mode, header) ==
    [exists |-> TRUE,
     lines |-> (IF mode = "a" THEN f.lines ELSE <<>>) \o
               (IF header THEN <<HeaderLine(df)>> ELSE <<>>) \o RowLines(df)]

AppendModeOverwrite == "w"

\* mode='a' of the append branch
AppendMode == "a"

AppendHeaderAlways == TRUE

\* header=False of the append branch
AppendHeader == FALSE

\* save_data: the new self.dataframe and the new file.
save_data(f, d, t, save_csv) ==
    LET df == Stamp(json_normalize(d.items), t)
    IN [dataframe |-> df,
        file |-> IF save_csv
                 THEN IF ~IsFile(f)
                      THEN to_csv(f, df, "w", TRUE)
                      ELSE to_csv(f, df, AppendMode, AppendHeader)
                 ELSE f]

\* ---------------------------------------------------------------- load_data
\* Strings read_csv takes for a missing value (a part of its default list).
NaStrings == {"", "NA", "N/A", "NaN", "nan", "null", "NULL"}

\* read_csv: empty and NA fields become NaN, a timestamp comes back as text.
FromCsvCell(c) ==
    IF c.t = "str" /\ c.s \in NaStrings THEN NaN
    ELSE IF c.t = "time" THEN Str(ToString(c.n))
    ELSE c

\* pd.read_csv: the first line names the columns; a short row is padded with
\* NaN, a row with more fields than the header is a ParserError.
read_csv(f) ==
    IF f.lines = <<>> THEN [raised |-> "EmptyDataError", df |-> NoFrame]
    ELSE LET cols == [c \in 1..Len(f.lines[1].cells) |-> f.lines[1].cells[c].s]
             body == Tail(f.lines)
         IN IF \E r \in 1..Len(body) : Len(body[r].cells) > Len(cols)
            THEN [raised |-> "ParserError", df |-> NoFrame]
            ELSE [raised |-> "",
                  df |-> Frame(cols,
                      [r \in 1..Len(body) |->
                          [c \in 1..Len(cols) |->
                              IF c <= Len(body[r].cells)
                              THEN FromCsvCell(body[r].cells[c])
                              ELSE NaN]])]

\* load_data: the table, or None when there is no file.
load_data(f) ==
    IF IsFile(f) THEN read_csv(f) ELSE [raised |-> "", df |-> NoFrame]

\* ---------------------------------------------------------------- transform_data
RECURSIVE FirstSeen(_, _)
FirstSeen(seen, seq) ==
    IF seq = <<>> THEN seen
    ELSE FirstSeen(IF IndexOf(seen, Head(seq)) = 0 THEN Append(seen, Head(seq)) ELSE seen,
                   Tail(seq))

Column(df, col) == [r \in 1..Len(df.rows) |-> df.rows[r][IndexOf(df.cols, col)]]

IsPresent(c) == c.t # "nan"

KeysPerRow(df) == SelectSeq(Column(df, "name"), IsPresent)

\* groupby('name', sort=False): the group keys in first-seen order; rows whose
\* name is missing belong to no group.
GroupKeys(df) == FirstSeen(<<>>, SelectSeq(Column(df, "name"), IsPresent))

\* The values of one column within one group.
GroupValues(df, key, col) ==
    LET ofKey == SelectSeq(df.rows, LAMBDA row : row[IndexOf(df.cols, "name")] = key)
    IN [r \in 1..Len(ofKey) |-> ofKey[r][IndexOf(df.cols, col)]]

RECURSIVE Gcd(_, _)
Gcd(a, b) == IF b = 0 THEN a ELSE Gcd(b, a % b)

\* A mean is kept as a fraction in lowest terms.
Rat(n, d) == LET g == Gcd(n, d) IN [t |-> "num", num |-> n \div g, den |-> d \div g]
NoValue == [t |-> "nan", num |-> 0, den |-> 1]

RECURSIVE SumOf(_)
SumOf(cells) == IF cells = <<>> THEN 0 ELSE Head(cells).n + SumOf(Tail(cells))

MeanAsSum(cells) ==
    LET present == SelectSeq(cells, IsPresent)
    IN IF present = <<>> THEN NoValue ELSE Rat(SumOf(present), 1)

\* .mean(): missing values are skipped; a group with no value has mean NaN.
Mean(cells) ==
    LET present == SelectSeq(cells, IsPresent)
    IN IF present = <<>> THEN NoValue ELSE Rat(SumOf(present), Len(present))

\* .replace([...columns...], ['1h', ..., '90d']) on the Percent_Change column
ReplaceLabel(label) ==
    IF IndexOf(PctCols, label) = 0 THEN label ELSE Horizons[IndexOf(PctCols, label)]

\* transform_data: groupby/mean, stack, reset_index, rename, replace.  keepna is
\* whether stack() keeps a NaN mean (the new implementation) or drops the row
\* (the implementation stack() used by default before pandas 3).
transform_data(df, keepna) ==
    IF IndexOf(df.cols, "name") = 0 \/ \E k \in 1..Len(PctCols) : IndexOf(df.cols, PctCols[k]) = 0
    THEN [raised |-> "KeyError", rows |-> <<>>]
    ELSE IF \E r \in 1..Len(df.rows), k \in 1..Len(PctCols) :
                df.rows[r][IndexOf(df.cols, PctCols[k])].t \notin {"num", "nan"}
    THEN [raised |-> "TypeError", rows |-> <<>>]
    ELSE LET keys == GroupKeys(df)
             n == Len(PctCols)
             stacked == [p \in 1..(Len(keys) * n) |->
                 LET key == keys[((p - 1) \div n) + 1]
                     col == PctCols[((p - 1) % n) + 1]
                 IN [name |-> key,
                     Percent_Change |-> ReplaceLabel(col),
                     values |-> Mean(GroupValues(df, key, col))]]
         IN [raised |-> "",
             rows |-> SelectSeq(stacked, LAMBDA row : keepna \/ row.values.t # "nan")]

\* ---------------------------------------------------------------- filter_coin_data
Quote == "\""

\* f'name == "{coin_name}"', as characters
QueryText(chars) == <<"n", "a", "m", "e", " ", "=", "=", " ", Quote>> \o chars \o <<Quote>>

RECURSIVE Join(_)
Join(chars) == IF chars = <<>> THEN "" ELSE Head(chars) \o Join(Tail(chars))

Least(S) == CHOOSE x \in S : \A y \in S : x <= y

\* The string literals of the expression from position pos on, as the Python
\* tokenizer reads them: three quotes open a triple-quoted literal that ends at
\* the next three quotes, one quote opens a literal that ends at the next quote,
\* adjacent literals are concatenated, and anything else after a closed literal
\* is a syntax error (the names below hold no blank, operator or string prefix).
\* "SyntaxError" stands for the error the parse raises, whichever its class.
RECURSIVE ScanLiterals(_, _, _)
ScanLiterals(t, pos, acc) ==
    IF pos > Len(t) THEN [raised |-> "", chars |-> acc]
    ELSE IF t[pos] # Quote THEN [raised |-> "SyntaxError", chars |-> <<>>]
    ELSE IF pos + 2 <= Len(t) /\ t[pos + 1] = Quote /\ t[pos + 2] = Quote
    THEN LET closes == {j \in (pos + 3)..(Len(t) - 2) :
                            t[j] = Quote /\ t[j + 1] = Quote /\ t[j + 2] = Quote}
         IN IF closes = {} THEN [raised |-> "SyntaxError", chars |-> <<>>]
            ELSE ScanLiterals(t, Least(closes) + 3,
                              acc \o SubSeq(t, pos + 3, Least(closes) - 1))
    ELSE LET closes == {j \in (pos + 1)..Len(t) : t[j] = Quote}
         IN IF closes = {} THEN [raised |-> "SyntaxError", chars |-> <<>>]
            ELSE ScanLiterals(t, Least(closes) + 1,
                              acc \o SubSeq(t, pos + 1, Least(closes) - 1))

\* dataframe.query(f'name == "{coin_name}"'): the expression is parsed, then
\* the rows whose name equals its string operand are kept, in order.
filter_coin_data(df, chars) ==
    LET text == QueryText(chars)
        lit == ScanLiterals(text, Len(text) - Len(chars) - 1, <<>>)
    IN IF lit.raised # "" THEN [raised |-> lit.raised, df |-> NoFrame]
       ELSE IF IndexOf(df.cols, "name") = 0
       THEN [raised |-> "UndefinedVariableError", df |-> NoFrame]
       ELSE [raised |-> "",
             df |-> Frame(df.cols,
                 SelectSeq(df.rows,
                     LAMBDA row : row[IndexOf(df.cols, "name")] = Str(Join(lit.chars))))]

\* ---------------------------------------------------------------- the script
NoFile == [exists |-> FALSE, lines |-> <<>>]
NoResponse == Resp("", TRUE, TRUE, <<>>)

\* "Bitcoin", the name __main__ filters for
Bitcoin == <<"B", "i", "t", "c", "o", "i", "n">>

Init ==
    /\ pc = "auto_loop"
    /\ i = 0
    /\ runs \in 0..MaxRuns
    /\ interval \in 0..MaxInterval
    /\ now = 0
    /\ data = None
    /\ response = NoResponse
    /\ file = NoFile
    /\ dataframe = Frame(<<>>, <<>>)
    /\ saved_data = NoFrame
    /\ transformed_data = <<>>
    /\ bitcoin_data = NoFrame
    /\ coin_name = Bitcoin
    /\ err = ""
    /\ future_stack \in BOOLEAN
    /\ fetches = 0
    /\ sleeps = 0
    /\ stored = <<>>

TruthyUnlessEmpty(d) == d.none \/ d.items # <<>>

TruthyUnlessNone(d) == ~d.none

\* "if data:" is false for None and for an empty collection.
Truthy(d) == ~d.none /\ d.items # <<>>

RangeStopsEarly(k, n) == k + 1 < n

\* "for i in range(runs)": whether iteration k takes place
RangeHas(k, n) == k < n

\* data = self.fetch_data(), from position at; an escaping exception ends the run.
FetchStep(at, to) ==
    /\ pc = at
    /\ \E resp \in Responses :
        LET r == fetch_data(resp)
        IN /\ response' = resp
           /\ fetches' = fetches + 1
           /\ IF r.raised # ""
              THEN pc' = "crashed" /\ err' = r.raised /\ data' = data
              ELSE pc' = to /\ err' = err /\ data' = r.value
    /\ UNCHANGED <<i, runs, interval, now, file, dataframe, saved_data,
                   transformed_data, bitcoin_data, coin_name, future_stack,
                   sleeps, stored>>

\* "if data: self.save_data(data)", the branch taken; json_normalize raises
\* NotImplementedError on a value that is no dict and no iterable.
StoreStep(at, to) ==
    /\ pc = at
    /\ Truthy(data)
    /\ IF data.none
       THEN /\ pc' = "crashed"
            /\ err' = "NotImplementedError"
            /\ UNCHANGED <<file, dataframe, stored>>
       ELSE LET s == save_data(file, data, now, TRUE)
            IN /\ file' = s.file
               /\ dataframe' = s.dataframe
               /\ stored' = Append(stored, [size |-> Len(data.items), at |-> now,
                                            cols |-> s.dataframe.cols])
               /\ pc' = to
               /\ err' = err
    /\ UNCHANGED <<i, runs, interval, now, data, response, saved_data,
                   transformed_data, bitcoin_data, coin_name, future_stack,
                   fetches, sleeps>>

\* "if data:", the branch not taken
SkipStep(at, to) ==
    /\ pc = at
    /\ ~Truthy(data)
    /\ pc' = to
    /\ UNCHANGED <<i, runs, interval, now, data, response, file, dataframe, saved_data,
                   transformed_data, bitcoin_data, coin_name, err, future_stack,
                   fetches, sleeps, stored>>

\* automate_data_pull: the head of the for loop
AutoLoop ==
    /\ pc = "auto_loop"
    /\ pc' = IF RangeHas(i, runs) THEN "auto_fetch" ELSE "main_fetch"
    /\ UNCHANGED <<i, runs, interval, now, data, response, file, dataframe, saved_data,
                   transformed_data, bitcoin_data, coin_name, err, future_stack,
                   fetches, sleeps, stored>>

AutoFetch == FetchStep("auto_fetch", "auto_store")

AutoStore == StoreStep("auto_store", "auto_sleep")

AutoSkip == SkipStep("auto_store", "auto_sleep")

\* sleep(interval), then the next iteration
AutoSleep ==
    /\ pc = "auto_sleep"
    /\ sleeps' = sleeps + 1
    /\ now' = now + interval
    /\ i' = i + 1
    /\ pc' = "auto_loop"
    /\ UNCHANGED <<runs, interval, data, response, file, dataframe, saved_data,
                   transformed_data, bitcoin_data, coin_name, err, future_stack,
                   fetches, stored>>

\* __main__ after the automated pull: one more fetch and store
MainFetch == FetchStep("main_fetch", "main_store")

MainStore == StoreStep("main_store", "main_load")

MainSkip == SkipStep("main_store", "main_load")

\* saved_data = api_handler.load_data(); "if saved_data is not None:"
MainLoad ==
    /\ pc = "main_load"
    /\ LET r == load_data(file)
       IN IF r.raised # ""
          THEN pc' = "crashed" /\ err' = r.raised /\ saved_data' = saved_data
          ELSE /\ saved_data' = r.df
               /\ err' = err
               /\ pc' = IF r.df.none THEN "done" ELSE "main_transform"
    /\ UNCHANGED <<i, runs, interval, now, data, response, file, dataframe,
                   transformed_data, bitcoin_data, coin_name, future_stack,
                   fetches, sleeps, stored>>

\* transformed_data = transformer.transform_data(saved_data)
MainTransform ==
    /\ pc = "main_transform"
    /\ LET r == transform_data(saved_data, future_stack)
       IN IF r.raised # ""
          THEN pc' = "crashed" /\ err' = r.raised /\ transformed_data' = transformed_data
          ELSE pc' = "main_filter" /\ err' = err /\ transformed_data' = r.rows
    /\ UNCHANGED <<i, runs, interval, now, data, response, file, dataframe, saved_data,
                   bitcoin_data, coin_name, future_stack, fetches, sleeps, stored>>

\* bitcoin_data = transformer.filter_coin_data(saved_data, "Bitcoin")
MainFilter ==
    /\ pc = "main_filter"
    /\ LET r == filter_coin_data(saved_data, coin_name)
       IN IF r.raised # ""
          THEN pc' = "crashed" /\ err' = r.raised /\ bitcoin_data' = bitcoin_data
          ELSE pc' = "done" /\ err' = err /\ bitcoin_data' = r.df
    /\ UNCHANGED <<i, runs, interval, now, data, response, file, dataframe, saved_data,
                   transformed_data, coin_name, future_stack, fetches, sleeps, stored>>

Next ==
    \/ AutoLoop
    \/ AutoFetch
    \/ AutoStore
    \/ AutoSkip
    \/ AutoSleep
    \/ MainFetch
    \/ MainStore
    \/ MainSkip
    \/ MainLoad
    \/ MainTransform
    \/ MainFilter

Spec == Init /\ [][Next]_vars

\* ---------------------------------------------------------------- DataTransformer on its own
Alphabet == {"a", "A", Quote}
NameStrings == UNION {[1..n -> Alphabet] : n \in 0..MaxNameLen}

TableNames == {"Bitcoin", "a", "A"}
\* The first percent change of a row and the horizon it has no value for.
Variants == {[base |-> 1, missing |-> ""], [base |-> 3, missing |-> "7d"]}

InitT ==
    /\ pc = "table"
    /\ i = 0
    /\ runs = 0
    /\ interval = 0
    /\ now = 0
    /\ data = None
    /\ response = NoResponse
    /\ file = NoFile
    /\ dataframe = Frame(<<>>, <<>>)
    /\ saved_data = Frame(<<"name">> \o PctCols, <<>>)
    /\ transformed_data = <<>>
    /\ bitcoin_data = NoFrame
    /\ coin_name = <<>>
    /\ err = ""
    /\ future_stack \in BOOLEAN
    /\ fetches = 0
    /\ sleeps = 0
    /\ stored = <<>>

\* One more row of the table handed to the transformer.
AddRow ==
    /\ pc = "table"
    /\ Len(saved_data.rows) < MaxRows
    /\ \E name \in TableNames, v \in Variants :
        saved_data' = Frame(saved_data.cols,
            saved_data.rows \o
                json_normalize(<<Coin(name, Horizons, v.base, v.missing)>>).rows)
    /\ UNCHANGED <<pc, i, runs, interval, now, data, response, file, dataframe,
                   transformed_data, bitcoin_data, coin_name, err, future_stack,
                   fetches, sleeps, stored>>

\* DataTransformer.transform_data(saved_data)
ApplyTransform ==
    /\ pc = "table"
    /\ LET r == transform_data(saved_data, future_stack)
       IN transformed_data' = r.rows /\ err' = r.raised
    /\ pc' = "transformed"
    /\ UNCHANGED <<i, runs, interval, now, data, response, file, dataframe, saved_data,
                   bitcoin_data, coin_name, future_stack, fetches, sleeps, stored>>

\* DataTransformer.filter_coin_data(saved_data, coin_name)
ApplyFilter ==
    /\ pc = "table"
    /\ \E chars \in NameStrings :
        LET r == filter_coin_data(saved_data, chars)
        IN coin_name' = chars /\ bitcoin_data' = r.df /\ err' = r.raised
    /\ pc' = "filtered"
    /\ UNCHANGED <<i, runs, interval, now, data, response, file, dataframe, saved_data,
                   transformed_data, future_stack, fetches, sleeps, stored>>

NextT ==
    \/ AddRow
    \/ ApplyTransform
    \/ ApplyFilter

SpecTransformer == InitT /\ [][NextT]_vars

\* ---------------------------------------------------------------- properties
LoopPcs == {"auto_loop", "auto_fetch", "auto_store", "auto_sleep"}
StorePcs == {"auto_store", "main_store"}
TransportFailures == {"ConnectionError", "Timeout", "TooManyRedirects"}

HeaderCount(f) == Cardinality({k \in 1..Len(f.lines) : f.lines[k].header})
DataRows(f) == Cardinality({k \in 1..Len(f.lines) : ~f.lines[k].header})

RECURSIVE SumSizes(_)
SumSizes(batches) ==
    IF batches = <<>> THEN 0 ELSE Head(batches).size + SumSizes(Tail(batches))

IsPrefix(a, b) == Len(a) <= Len(b) /\ SubSeq(b, 1, Len(a)) = a

\* The lines of the file that batch k wrote, and the timestamp field of a line.
BatchLines(k) == {1 + SumSizes(SubSeq(stored, 1, k - 1)) + r : r \in 1..stored[k].size}
Ts(l) == file.lines[l].cells[Len(file.lines[l].cells)]

\* C1: when automate_data_pull returns, exactly runs fetches and exactly runs
\* sleeps have been performed, whatever each fetch returned (data, an empty
\* collection or the no-data result of a caught transport failure); inside the
\* loop iteration i has i sleeps behind it, and a sleep follows every fetch,
\* the last one included.
C1_LoopCounts ==
    /\ pc \in {"auto_loop", "auto_fetch"} => fetches = i /\ sleeps = i /\ i <= runs
    /\ pc \in {"auto_store", "auto_sleep"} => fetches = i + 1 /\ sleeps = i /\ i < runs
    /\ pc = "main_fetch" => fetches = runs /\ sleeps = runs /\ i = runs
    /\ pc \notin LoopPcs \cup {"main_fetch", "crashed"} =>
           fetches = runs + 1 /\ sleeps = runs
    /\ pc = "crashed" => sleeps <= runs /\ fetches <= runs + 1

\* The loop has returned after 3 iterations in which some fetch stored a batch
\* and some fetch did not.
C1_Witness ==
    /\ pc = "main_fetch"
    /\ runs = 3
    /\ fetches = 3
    /\ sleeps = 3
    /\ Len(stored) \in {1, 2}

\* C2: in the poll loop an iteration whose fetch returned nothing (None) makes
\* no store and leaves the file as it was, goes on to the sleep, and the sleep
\* goes on to the loop head, which starts the next iteration's fetch while
\* iterations remain.
C2_FailedFetchSkipsCycle ==
    [][ /\ (pc = "auto_store" /\ data.none) =>
               /\ file' = file
               /\ stored' = stored
               /\ dataframe' = dataframe
               /\ pc' = "auto_sleep"
        /\ pc = "auto_sleep" => pc' = "auto_loop" /\ sleeps' = sleeps + 1 /\ i' = i + 1
        /\ (pc = "auto_loop" /\ i < runs) => pc' = "auto_fetch"
      ]_vars

\* The third iteration is about to fetch, after a second iteration whose fetch
\* returned None and a first one that stored a batch.
C2_Witness ==
    /\ pc = "auto_fetch"
    /\ i = 2
    /\ data.none
    /\ Len(stored) = 1
    /\ file.exists
    /\ sleeps = 2

\* C3: the file exists once a batch has been stored, and then it has exactly
\* one header line, its first line, and as many data rows as the stored
\* batches have records.
C3_OneHeaderRowsAdd ==
    /\ file.exists <=> stored # <<>>
    /\ file.exists =>
        /\ HeaderCount(file) = 1
        /\ file.lines[1].header
        /\ DataRows(file) = SumSizes(stored)

\* A batch of 2 and then a batch of 1 were stored into an absent file.
C3_Witness ==
    /\ Len(stored) = 2
    /\ stored[1].size = 2
    /\ stored[2].size = 1
    /\ DataRows(file) = 3
    /\ HeaderCount(file) = 1

\* C4: the file is append-only: no step removes the file or changes a line it
\* holds (the old contents are a prefix of the new), and its header stays the
\* column list of the first batch stored, even when a later batch has other
\* columns.
C4_AppendOnly ==
    [][ /\ file.exists => file'.exists /\ IsPrefix(file.lines, file'.lines)
        /\ file'.exists =>
               /\ stored' # <<>>
               /\ file'.lines[1] =
                      [header |-> TRUE,
                       cells |-> [c \in 1..Len(stored'[1].cols) |-> Str(stored'[1].cols[c])]]
      ]_vars

\* Two batches with different columns were stored, and the file was loaded.
C4_Witness ==
    /\ Len(stored) >= 2
    /\ stored[1].cols # stored[2].cols
    /\ ~saved_data.none
    /\ pc \in {"main_transform", "main_filter", "done"}

\* C5: every row of a stored batch carries the clock value of its store; a
\* batch stored at a later clock value has timestamps strictly greater than
\* every timestamp of an earlier batch; timestamps never decrease down the file.
C5_BatchTimestamps ==
    /\ \A k \in 1..Len(stored) : \A l \in BatchLines(k) :
           l <= Len(file.lines) /\ Ts(l) = Time(stored[k].at)
    /\ \A k1, k2 \in 1..Len(stored) :
           (k1 < k2 /\ stored[k1].at < stored[k2].at) =>
               \A l1 \in BatchLines(k1), l2 \in BatchLines(k2) : Ts(l1).n < Ts(l2).n
    /\ \A l1, l2 \in 2..Len(file.lines) : l1 < l2 => Ts(l1).n <= Ts(l2).n

\* A batch of two records, then a batch stored at a later clock value.
C5_Witness ==
    /\ Len(stored) >= 2
    /\ stored[1].size = 2
    /\ stored[1].at < stored[2].at

\* ---------------------------------------------------------------- properties of DataTransformer
NameCol == IndexOf(saved_data.cols, "name")

\* The distinct entity names of the table, and the rows of one entity.
EntityNames == {saved_data.rows[r][NameCol] : r \in 1..Len(saved_data.rows)}
RowsOf(e) == {r \in 1..Len(saved_data.rows) : saved_data.rows[r][NameCol] = e}
FirstRow(e) == CHOOSE r \in RowsOf(e) : \A q \in RowsOf(e) : r <= q

\* The rows of entity e that have a value for horizon h, and their sum.
ValueRows(e, h) ==
    {r \in RowsOf(e) : saved_data.rows[r][IndexOf(saved_data.cols, PctCols[h])].t = "num"}

RECURSIVE SumRows(_, _)
SumRows(R, h) ==
    IF R = {} THEN 0
    ELSE LET r == CHOOSE x \in R : TRUE
         IN saved_data.rows[r][IndexOf(saved_data.cols, PctCols[h])].n + SumRows(R \ {r}, h)

\* The output rows for the pair (e, horizon h).
PairRows(e, h) ==
    {p \in 1..Len(transformed_data) :
        transformed_data[p].name = e /\ transformed_data[p].Percent_Change = Horizons[h]}

\* C6 as claimed: N distinct entity names give exactly 6*N rows and every
\* (entity, horizon) pair exactly once, also when percent-change values are
\* missing.
C6_SixRowsPerEntity ==
    pc = "transformed" =>
        /\ err = ""
        /\ Len(transformed_data) = 6 * Cardinality(EntityNames)
        /\ \A e \in EntityNames, h \in 1..Len(Horizons) : Cardinality(PairRows(e, h)) = 1

\* C6 as amended: every (entity, horizon) pair appears at most once, so there
\* are at most 6*N rows; a pair appears exactly once when some row of the
\* entity has a value for the horizon, hence exactly 6*N rows when every
\* entity has a value for every horizon; a pair with no value at all has a row
\* only where stack() keeps NaN.
C6_SixRowsPerEntityWithValues ==
    pc = "transformed" =>
        /\ err = ""
        /\ Len(transformed_data) <= 6 * Cardinality(EntityNames)
        /\ \A p \in 1..Len(transformed_data) :
               /\ transformed_data[p].name \in EntityNames
               /\ IndexOf(Horizons, transformed_data[p].Percent_Change) # 0
        /\ \A e \in EntityNames, h \in 1..Len(Horizons) :
               /\ Cardinality(PairRows(e, h)) <= 1
               /\ ValueRows(e, h) # {} => Cardinality(PairRows(e, h)) = 1
               /\ (ValueRows(e, h) = {} /\ ~future_stack) => PairRows(e, h) = {}
        /\ (\A e \in EntityNames, h \in 1..Len(Horizons) : ValueRows(e, h) # {}) =>
               Len(transformed_data) = 6 * Cardinality(EntityNames)

\* Two entities, one of them with two rows of which one lacks a value that
\* the other has: 12 output rows.
C6_Witness ==
    /\ pc = "transformed"
    /\ Cardinality(EntityNames) = 2
    /\ Len(saved_data.rows) = 3
    /\ \E e \in EntityNames, h \in 1..Len(Horizons) :
           ValueRows(e, h) # {} /\ ValueRows(e, h) # RowsOf(e)
    /\ \A e \in EntityNames, h \in 1..Len(Horizons) : ValueRows(e, h) # {}
    /\ Len(transformed_data) = 12

\* C7 as claimed: filter_coin_data returns exactly the rows whose name equals
\* coin_name, in their order, and raises for no coin_name.
C7_ExactMatchNeverRaises ==
    pc = "filtered" =>
        /\ err = ""
        /\ ~bitcoin_data.none
        /\ bitcoin_data.rows =
               SelectSeq(saved_data.rows, LAMBDA row : row[NameCol] = Str(Join(coin_name)))

\* C8: transform_data emits the entities in the order of their first rows and
\* the horizons of an entity in the order 1h .. 90d; the value of a row is the
\* arithmetic mean of the entity's values in that column (over all rows of the
\* entity when none is missing); one Bitcoin row with changes 1..6 gives
\* (Bitcoin, 1h, 1) .. (Bitcoin, 90d, 6).
C8_FirstSeenOrderAndMean ==
    pc = "transformed" =>
        /\ \A p, q \in 1..Len(transformed_data) :
               LET a == transformed_data[p]
                   b == transformed_data[q]
               IN p < q =>
                   \/ FirstRow(a.name) < FirstRow(b.name)
                   \/ /\ a.name = b.name
                      /\ IndexOf(Horizons, a.Percent_Change) < IndexOf(Horizons, b.Percent_Change)
        /\ \A p \in 1..Len(transformed_data) :
               LET a == transformed_data[p]
                   h == IndexOf(Horizons, a.Percent_Change)
                   R == ValueRows(a.name, h)
               IN /\ h # 0
                  /\ IF R = {} THEN a.values.t = "nan"
                     ELSE /\ a.values.t = "num"
                          /\ a.values.den > 0
                          /\ a.values.num * Cardinality(R) = SumRows(R, h) * a.values.den
        /\ saved_data.rows = <<<<Str("Bitcoin"), Num(1), Num(2), Num(3), Num(4), Num(5), Num(6)>>>> =>
               transformed_data =
                   [h \in 1..6 |-> [name |-> Str("Bitcoin"),
                                    Percent_Change |-> Horizons[h],
                                    values |-> [t |-> "num", num |-> h, den |-> 1]]]

\* Rows for "a", "Bitcoin" and "a" again with other values: "a" comes first in
\* the output, with the mean 2 of its two 1h values 1 and 3.
C8_Witness ==
    /\ pc = "transformed"
    /\ Len(saved_data.rows) = 3
    /\ saved_data.rows[1][NameCol] = Str("a")
    /\ saved_data.rows[2][NameCol] = Str("Bitcoin")
    /\ saved_data.rows[3][NameCol] = Str("a")
    /\ saved_data.rows[1] # saved_data.rows[3]
    /\ transformed_data[1] =
           [name |-> Str("a"), Percent_Change |-> "1h", values |-> [t |-> "num", num |-> 2, den |-> 1]]
    /\ transformed_data[Len(transformed_data)].name = Str("Bitcoin")

\* ---------------------------------------------------------------- properties of the error paths
\* C9: a caught transport failure gives the no-data result and a missing file
\* gives the absent result, with the file unchanged and the run going on; a
\* request error outside the except clause, a body that is not JSON, a JSON
\* body with no data section and a table without a percent-change column end
\* the run, and an ended run takes no further step.
C9_ErrorTaxonomy ==
    [][ /\ pc # "crashed"
        /\ (pc' = "crashed") <=> (err' # "")
        /\ fetches' # fetches =>
               /\ file' = file
               /\ IF response'.exc \in TransportFailures
                  THEN data' = None /\ pc' \in StorePcs /\ err' = ""
                  ELSE IF response'.exc # "" \/ ~response'.valid \/ ~response'.has_data
                  THEN pc' = "crashed" /\ sleeps' = sleeps /\ stored' = stored
                  ELSE data' = List(response'.items) /\ pc' \in StorePcs /\ err' = ""
        /\ (pc = "main_load" /\ ~file.exists) =>
               saved_data' = NoFrame /\ pc' = "done" /\ err' = "" /\ file' = file
        /\ (pc = "main_transform"
              /\ \E k \in 1..Len(PctCols) : IndexOf(saved_data.cols, PctCols[k]) = 0) =>
               pc' = "crashed" /\ err' = "KeyError" /\ file' = file
      ]_vars

\* The poll loop was aborted in its second of three iterations, after the
\* first had stored a batch.
C9_Witness ==
    /\ pc = "crashed"
    /\ err \in {"JSONDecodeError", "KeyError"}
    /\ runs = 3
    /\ fetches = 2
    /\ sleeps = 1
    /\ file.exists

\* C10: save_data is called only by the store steps of the loop and of the
\* script, and there exactly when the fetch result is neither None nor empty;
\* otherwise the file is left as it is, so a file that exists always holds a
\* data row.
C10_StoreIffNonEmpty ==
    [][ /\ stored' # stored => pc \in StorePcs
        /\ pc \in StorePcs =>
               /\ (stored' # stored) <=> (~data.none /\ Len(data.items) > 0)
               /\ (data.none \/ Len(data.items) = 0) => file' = file /\ dataframe' = dataframe
        /\ file'.exists => DataRows(file') >= 1
      ]_vars

\* A fetch returned an empty collection, the store was skipped and there is
\* still no file.
C10_Witness ==
    /\ pc = "auto_sleep"
    /\ ~data.none
    /\ data.items = <<>>
    /\ ~file.exists

====
